---- MODULE Spec2Model ----
(***************************************************************************)
(* Session lifecycle and registry of src/src/sessions.js: the registry     *)
(* Map, setupSession, restoreSessions, validateSession, deleteSession,     *)
(* deleteSessionFolder and flushSessions, with the event loop's suspension *)
(* points as steps.  Strings are sequences of one-character strings, so    *)
(* that String.prototype.startsWith, the file-name pattern and path        *)
(* resolution are computed character by character.                         *)
(***************************************************************************)
EXTENDS Integers, Sequences, FiniteSets, TLC

VARIABLES
    sessionFolderPath,  \* config value: the sessions root
    dirs,               \* file system: canonical paths of the existing directories
    links,              \* file system: symbolic links, canonical path -> canonical target
    sessions,           \* the registry Map: session id -> client handle
    clients,            \* every Client constructed so far, indexed by handle
    task,               \* the async calls in flight, one record per task
    restore,            \* restoreSessions' pending fs.readdir callback
    created,            \* what the last setupSession call returned
    uncaught            \* an exception left a callback uncaught

vars == <<sessionFolderPath, dirs, links, sessions, clients, task, restore, created, uncaught>>

(***************************************************************************)
(* Bounds of the model.                                                    *)
(***************************************************************************)
MaxClients == 2     \* Clients constructed in one behaviour

(***************************************************************************)
(* Strings.                                                                *)
(***************************************************************************)
SessionPrefix == <<"s", "e", "s", "s", "i", "o", "n", "-">>

Sep == <<"/">>

DotDot == <<".", ".">>

\* String.prototype.startsWith: a character-wise prefix test.
StartsWith(s, p) == Len(p) <= Len(s) /\ SubSeq(s, 1, Len(p)) = p

\* As Match, for the expression /^session-(.*)$/: the id may be empty.
MatchEmpty(file) == StartsWith(file, SessionPrefix)

\* file.match(/^session-(.+)$/): the prefix followed by at least one character.
Match(file) == StartsWith(file, SessionPrefix) /\ Len(file) > Len(SessionPrefix)

\* match[1]: what follows the prefix.
MatchId(file) == SubSeq(file, Len(SessionPrefix) + 1, Len(file))

\* `${sessionFolderPath}/session-${sessionId}/`
TargetDirPath(root, sessionId) == root \o Sep \o SessionPrefix \o sessionId \o Sep

(***************************************************************************)
(* The file system: path resolution, listing and recursive removal.        *)
(***************************************************************************)
RECURSIVE Split(_)
\* The segments of a path between its "/" characters.
Split(s) ==
    IF s = <<>> THEN << <<>> >>
    ELSE LET rest == Split(Tail(s))
         IN  IF Head(s) = "/" THEN << <<>> >> \o rest
             ELSE << <<Head(s)>> \o Head(rest) >> \o Tail(rest)

RECURSIVE Join(_)
\* The canonical absolute path of a sequence of segments.
Join(segs) ==
    IF segs = <<>> THEN <<>>
    ELSE Sep \o Head(segs) \o Join(Tail(segs))

Front(s) == SubSeq(s, 1, Len(s) - 1)

NoPath == [ok |-> FALSE, path |-> <<>>]

RECURSIVE Walk(_, _, _, _)
\* Resolves the segments segs from the canonical directory cur: "." and
\* empty segments are skipped, ".." goes to the parent of the resolved
\* directory, a link is replaced by its target, a missing entry is ENOENT.
Walk(ds, ls, cur, segs) ==
    IF segs = <<>> THEN [ok |-> TRUE, path |-> Join(cur)]
    ELSE LET s == Head(segs)
             n == Append(cur, s)
         IN  IF s = <<>> \/ s = <<".">> THEN Walk(ds, ls, cur, Tail(segs))
             ELSE IF s = DotDot
                  THEN Walk(ds, ls, IF cur = <<>> THEN cur ELSE Front(cur), Tail(segs))
             ELSE IF Join(n) \in DOMAIN ls
                  THEN IF ls[Join(n)] \in ds
                       THEN Walk(ds, ls, Tail(Split(ls[Join(n)])), Tail(segs))
                       ELSE NoPath
             ELSE IF Join(n) \in ds THEN Walk(ds, ls, n, Tail(segs))
             ELSE NoPath

\* fs.promises.realpath of an absolute path.
Realpath(ds, ls, p) == Walk(ds, ls, <<>>, Split(p))

\* n is the directory d or lies below it.
Within(n, d) == n = d \/ StartsWith(n, d \o Sep)

\* The names fs.readdir lists: the immediate children of the directory.
Children(ds, ls, d) ==
    { SubSeq(n, Len(d) + 2, Len(n)) :
        n \in { m \in ds \cup DOMAIN ls :
                  /\ StartsWith(m, d \o Sep)
                  /\ Len(m) > Len(d) + 1
                  /\ \A i \in (Len(d) + 2)..Len(m) : m[i] # "/" } }

\* Whether the last segment of the path names a link.
EndsInLink(ds, ls, p) ==
    LET segs == Split(p)
        last == CHOOSE i \in 0..Len(segs) :
                    /\ i > 0 => segs[i] # <<>>
                    /\ \A j \in (i + 1)..Len(segs) : segs[j] = <<>>
        par  == Walk(ds, ls, <<>>, SubSeq(segs, 1, last - 1))
    IN  /\ last > 0
        /\ par.ok
        /\ segs[last] \notin {<<".">>, DotDot}
        /\ (par.path \o Sep \o segs[last]) \in DOMAIN ls

\* The directories left by a recursive removal of the tree at canonical path d.
RemoveTree(ds, d) == { n \in ds : ~Within(n, d) }

LinksLeft(ls, d) == [n \in { m \in DOMAIN ls : ~Within(m, d) } |-> ls[n]]

(***************************************************************************)
(* Values.                                                                 *)
(***************************************************************************)
IdA == <<"a">>

IdB == <<"b">>

\* The session ids callers pass.
Ids == {IdA, IdB}

\* config.sessionFolderPath of the lifecycle specification.
MainRoot == <<"/", "d", "/", "s">>

\* A canonical path's parent directories, the path included.
Ancestors(p) == { Join(SubSeq(Tail(Split(p)), 1, i)) : i \in 1..(Len(Split(p)) - 1) }

SessionDir(root, sessionId) == root \o Sep \o SessionPrefix \o sessionId

\* A directory of the root that does not match the pattern: "session-".
EmptyIdDir(root) == root \o Sep \o SessionPrefix

\* client.getState() reports one of these; only 'CONNECTED' is the sentinel.
States == {"CONNECTED", "OPENING", "null"}

\* returnData as declared at the top of validateSession.
ReturnData == [success |-> FALSE, state |-> "null", message |-> ""]

NotFound == [ReturnData EXCEPT !.message = "session_not_found"]

\* As Classify, with every non-null state taken for connected.
ClassifyTruthy(state) ==
    IF state = "null"
    THEN [ReturnData EXCEPT !.state = state, !.message = "session_not_connected"]
    ELSE [success |-> TRUE, state |-> state, message |-> "session_connected"]

\* The result for a reported state (lines 33-44).
Classify(state) ==
    IF state # "CONNECTED"
    THEN [ReturnData EXCEPT !.state = state, !.message = "session_not_connected"]
    ELSE [success |-> TRUE, state |-> state, message |-> "session_connected"]

\* The catch clause's result (line 47).
Caught(message) == [success |-> FALSE, state |-> "null", message |-> message]

\* The validation results a caller can hand to deleteSession.
Validations ==
    { Classify(s) : s \in States } \cup {NotFound, Caught("getState failed")}

NoClient == 0

NewClient(sessionId) ==
    [id |-> sessionId, pupPage |-> FALSE, destroyed |-> FALSE]

\* Declared media sizes run from 0 to MaxSize.
MaxSize == 3

\* message._data?.size: <<n>>, or <<>> when _data or its size is missing.
Sizes == { <<n>> : n \in 0..MaxSize } \cup {<<>>}

\* The values of maxAttachmentSize (./config) considered.
Thresholds == 1..(MaxSize - 1)

Mimetypes == {"image/png", "video/mp4"}

\* The message objects the 'message' event is emitted with.
Messages == [hasMedia : BOOLEAN, size : Sizes, mimetype : Mimetypes]

NoMessage == [hasMedia |-> FALSE, size |-> <<>>, mimetype |-> ""]

IdleTask ==
    [op |-> "none", pc |-> "idle", id |-> <<>>, client |-> NoClient, flag |-> FALSE,
     v |-> ReturnData, files |-> {}, err |-> "", rt |-> <<>>, rs |-> <<>>,
     guard |-> FALSE, timedOut |-> FALSE, did |-> {}, reported |-> "",
     acted |-> {}, seen |-> {}, msg |-> NoMessage, max |-> 0, sent |-> <<>>]

\* The tasks: the asynchronous calls that can be in flight.
Tasks == {1, 2}

\* The task of the specifications with one call in flight.
Solo == {1}

\* thrown: the ids whose Client constructor threw in the call; by: the caller.
NotCreated ==
    [id |-> <<>>, success |-> FALSE, message |-> "", client |-> NoClient,
     thrown |-> {}, by |-> "none"]

\* The process runs: no exception was left uncaught.
Running == ~uncaught

\* A task that can take a new call: nothing of it is in flight.
Free(t) == task[t].pc \in {"idle", "done"}

(***************************************************************************)
(* Initial states: the module is loaded, the Map is empty.  The sessions   *)
(* root is as an earlier run left it: a stray directory "session-" and the *)
(* stores of some sessions.                                                *)
(***************************************************************************)
Loaded ==
    /\ sessions = <<>>
    /\ clients = <<>>
    /\ task = [t \in Tasks |-> IdleTask]
    /\ restore = "none"
    /\ created = NotCreated
    /\ uncaught = FALSE

Init ==
    /\ sessionFolderPath = MainRoot
    /\ \E kept \in SUBSET { SessionDir(MainRoot, i) : i \in Ids } :
            dirs = Ancestors(MainRoot) \cup {EmptyIdDir(MainRoot)} \cup kept
    /\ links = <<>>
    /\ Loaded

\* The same, or a first run: the sessions root does not exist yet.
InitOrFresh ==
    \/ Init
    \/ /\ sessionFolderPath = MainRoot
       /\ dirs = Ancestors(MainRoot) \ {MainRoot}
       /\ links = <<>>
       /\ Loaded


(***************************************************************************)
(* setupSession (lines 77-182).                                            *)
(***************************************************************************)
\* sessions.set(sessionId, client)
MapSet(ss, sessionId, client) ==
    [k \in DOMAIN ss \cup {sessionId} |-> IF k = sessionId THEN client ELSE ss[k]]

\* sessions.delete(sessionId)
MapDelete(ss, sessionId) == [k \in DOMAIN ss \ {sessionId} |-> ss[k]]

\* As AlreadyExists, with the test of line 79 left out.
NeverExists(ss, sessionId) == FALSE

\* The guard of line 79.
AlreadyExists(ss, sessionId) == sessionId \in DOMAIN ss

\* One call: the Map, the clients and the value returned.  throws: the
\* Client or LocalAuth constructor throws, which the catch clause returns.
SetupSession(ss, cs, sessionId, throws) ==
    IF AlreadyExists(ss, sessionId)
    THEN [sessions |-> ss, clients |-> cs,
          ret |-> [id |-> sessionId, success |-> FALSE,
                   message |-> "Session already exists", client |-> ss[sessionId],
                   thrown |-> {}, by |-> "setupSession"]]
    ELSE IF throws
    THEN [sessions |-> ss, clients |-> cs,
          ret |-> [id |-> sessionId, success |-> FALSE,
                   message |-> "constructor failed", client |-> NoClient,
                   thrown |-> {sessionId}, by |-> "setupSession"]]
    ELSE [sessions |-> MapSet(ss, sessionId, Len(cs) + 1),
          clients |-> Append(cs, NewClient(sessionId)),
          ret |-> [id |-> sessionId, success |-> TRUE,
                   message |-> "Session initiated successfully",
                   client |-> Len(cs) + 1,
                   thrown |-> {}, by |-> "setupSession"]]

\* Whether the call constructs a Client.
Constructs(ss, sessionId, throws) == ~AlreadyExists(ss, sessionId) /\ ~throws

Create(sessionId, throws) ==
    /\ Running
    /\ Constructs(sessions, sessionId, throws) => Len(clients) < MaxClients
    /\ LET r == SetupSession(sessions, clients, sessionId, throws)
       IN  /\ sessions' = r.sessions
           /\ clients' = r.clients
           /\ created' = r.ret
    /\ UNCHANGED <<sessionFolderPath, dirs, links, task, restore, uncaught>>

(***************************************************************************)
(* restoreSessions (lines 52-74): the synchronous part, then the           *)
(* fs.readdir callback.                                                    *)
(***************************************************************************)
\* fs.existsSync(sessionFolderPath) holds: fs.readdir is issued.
RestoreSessions ==
    /\ Running
    /\ restore = "none"
    /\ Realpath(dirs, links, sessionFolderPath).ok
    /\ restore' = "readdir"
    /\ UNCHANGED <<sessionFolderPath, dirs, links, sessions, clients, task, created, uncaught>>

\* The root is missing: fs.mkdirSync creates it, then fs.readdir is issued.
RestoreMkdir ==
    /\ Running
    /\ restore = "none"
    /\ ~Realpath(dirs, links, sessionFolderPath).ok
    /\ dirs' = dirs \cup {sessionFolderPath}
    /\ restore' = "readdir"
    /\ UNCHANGED <<sessionFolderPath, links, sessions, clients, task, created, uncaught>>

\* fs.mkdirSync throws: the catch clause logs it and nothing is listed.
RestoreMkdirThrows ==
    /\ Running
    /\ restore = "none"
    /\ ~Realpath(dirs, links, sessionFolderPath).ok
    /\ UNCHANGED vars

RECURSIVE RestoreLoop(_, _, _, _, _)
\* The for loop of lines 60-68 over the listed names; bad: the ids whose
\* Client constructor throws.
RestoreLoop(ss, cs, ret, files, bad) ==
    IF files = {} THEN [sessions |-> ss, clients |-> cs, ret |-> ret]
    ELSE LET file == CHOOSE f \in files : TRUE
         IN  IF Match(file)
             THEN LET r == SetupSession(ss, cs, MatchId(file), MatchId(file) \in bad)
                  IN  RestoreLoop(r.sessions, r.clients,
                                  [r.ret EXCEPT !.thrown = @ \cup ret.thrown,
                                                !.by = "restoreSessions"],
                                  files \ {file}, bad)
             ELSE RestoreLoop(ss, cs, ret, files \ {file}, bad)

\* The callback with the listing.
RestoreCallback(bad) ==
    /\ Running
    /\ restore = "readdir"
    /\ Realpath(dirs, links, sessionFolderPath).ok
    /\ LET files == Children(dirs, links, Realpath(dirs, links, sessionFolderPath).path)
           r == RestoreLoop(sessions, clients,
                            [created EXCEPT !.thrown = {}, !.by = "restoreSessions"],
                            files, bad)
       IN  /\ bad \subseteq { MatchId(f) : f \in { g \in files : Match(g) } } \ DOMAIN sessions
           /\ Len(r.clients) <= MaxClients
           /\ sessions' = r.sessions
           /\ clients' = r.clients
           /\ created' = r.ret
    /\ restore' = "none"
    /\ UNCHANGED <<sessionFolderPath, dirs, links, task, uncaught>>

\* The callback with an error: files is undefined and the for loop throws
\* inside the callback, where no try block is active.
RestoreCallbackError ==
    /\ Running
    /\ restore = "readdir"
    /\ restore' = "none"
    /\ uncaught' = TRUE
    /\ UNCHANGED <<sessionFolderPath, dirs, links, sessions, clients, task, created>>

(***************************************************************************)
(* The client library, seen from this module: a Client's automation        *)
(* surface appears some time after construction, and its LocalAuth store   *)
(* session-<clientId> is created under dataPath while the Client lives.    *)
(***************************************************************************)
Live(h) == h \in 1..Len(clients) /\ ~clients[h].destroyed

PupPageAppears(h) ==
    /\ Running
    /\ Live(h)
    /\ ~clients[h].pupPage
    /\ clients' = [clients EXCEPT ![h].pupPage = TRUE]
    /\ UNCHANGED <<sessionFolderPath, dirs, links, sessions, task, restore, created, uncaught>>

AuthStoreCreated(h) ==
    /\ Running
    /\ Live(h)
    /\ SessionDir(sessionFolderPath, clients[h].id) \notin dirs
    /\ dirs' = dirs \cup {sessionFolderPath, SessionDir(sessionFolderPath, clients[h].id)}
    /\ UNCHANGED <<sessionFolderPath, links, sessions, clients, task, restore, created, uncaught>>

(***************************************************************************)
(* validateSession (lines 8-49).  A call made by flushSessions hands its   *)
(* result to the flush loop; a caller's own call ends the task.            *)
(***************************************************************************)
Others == <<sessionFolderPath, dirs, links, sessions, clients, restore, created, uncaught>>

\* return of validateSession
ReturnValidation(tk, result) ==
    IF tk.op = "flush"
    THEN [tk EXCEPT !.v = result, !.pc = "decide",
                    !.seen = @ \cup {<<tk.id, result.success, result.message>>}]
    ELSE [tk EXCEPT !.v = result, !.pc = "done", !.client = NoClient]

\* The guard of line 13: no entry, or an entry holding a falsy value.
NotLive(ss, sessionId) == sessionId \notin DOMAIN ss \/ ss[sessionId] = NoClient

\* As BeginValidate, with the wait issued before the lookup.
BeginValidateWaits(tk, sessionId) ==
    LET b == [tk EXCEPT !.id = sessionId, !.client = NoClient, !.v = ReturnData,
                        !.timedOut = FALSE, !.did = {"wait"}, !.reported = ""]
    IN  IF NotLive(sessions, sessionId)
        THEN ReturnValidation(b, NotFound)
        ELSE [b EXCEPT !.client = sessions[sessionId], !.pc = "wait"]

\* Lines 10-20, up to the first await.
BeginValidate(tk, sessionId) ==
    LET b == [tk EXCEPT !.id = sessionId, !.client = NoClient, !.v = ReturnData,
                        !.timedOut = FALSE, !.did = {}, !.reported = ""]
    IN  IF NotLive(sessions, sessionId)
        THEN ReturnValidation(b, NotFound)
        ELSE [b EXCEPT !.client = sessions[sessionId], !.pc = "wait", !.did = {"wait"}]

ValidateSession(t, sessionId) ==
    /\ Running
    /\ Free(t)
    /\ task' = [task EXCEPT ![t] = BeginValidate([IdleTask EXCEPT !.op = "validate"], sessionId)]
    /\ UNCHANGED Others

\* The message of the error the wait rejects with on its deadline.
TimeoutMessage == "timeout"

\* waitForNestedObject(client, 'pupPage') of ./utils: bounded polling that
\* resolves once the property exists and rejects when the deadline passes
\* without it.
NestedObjectExists(client) == client.pupPage

\* What the awaited expression of lines 20-21 yields on rejection: the
\* handler's object is the value of the await expression statement, and the
\* function goes on to the loop of line 24.
AfterTimeout(tk) == [tk EXCEPT !.timedOut = TRUE, !.pc = "evaluate"]

WaitResolves(t) ==
    /\ Running
    /\ task[t].pc = "wait"
    /\ NestedObjectExists(clients[task[t].client])
    /\ task' = [task EXCEPT ![t].pc = "evaluate"]
    /\ UNCHANGED Others

WaitTimesOut(t) ==
    /\ Running
    /\ task[t].pc = "wait"
    /\ ~NestedObjectExists(clients[task[t].client])
    /\ task' = [task EXCEPT ![t] = AfterTimeout(task[t])]
    /\ UNCHANGED Others

\* client.pupPage.evaluate('1') resolves: break (line 26).
EvaluateResolves(t) ==
    /\ Running
    /\ task[t].pc = "evaluate"
    /\ clients[task[t].client].pupPage
    /\ task' = [task EXCEPT ![t].pc = "getState", ![t].did = @ \cup {"evaluate"}]
    /\ UNCHANGED Others

\* It throws (no pupPage: a TypeError) or rejects: the 100 ms timer is set.
EvaluateThrows(t) ==
    /\ Running
    /\ task[t].pc = "evaluate"
    /\ task' = [task EXCEPT ![t].pc = "delay", ![t].did = @ \cup {"evaluate", "delay"}]
    /\ UNCHANGED Others

\* The timer fires: the loop tries again.
DelayEnds(t) ==
    /\ Running
    /\ task[t].pc = "delay"
    /\ task' = [task EXCEPT ![t].pc = "evaluate"]
    /\ UNCHANGED Others

\* client.getState() resolves with a state (lines 33-44).
GetState(t, state) ==
    /\ Running
    /\ task[t].pc = "getState"
    /\ task' = [task EXCEPT ![t] =
                  ReturnValidation([task[t] EXCEPT !.did = @ \cup {"getState"},
                                                   !.reported = state],
                                   Classify(state))]
    /\ UNCHANGED Others

\* client.getState() rejects: the catch clause of lines 45-48.
GetStateThrows(t) ==
    /\ Running
    /\ task[t].pc = "getState"
    /\ task' = [task EXCEPT ![t] =
                  ReturnValidation([task[t] EXCEPT !.did = @ \cup {"getState"}],
                                   Caught("getState failed"))]
    /\ UNCHANGED Others

(***************************************************************************)
(* deleteSession (lines 202-219) and deleteSessionFolder (lines 185-199).  *)
(***************************************************************************)
\* As ReturnDelete, with flushSessions catching the error of a deleteSession
\* call and going on with the next name.
ReturnDeleteSwallows(tk, error) ==
    IF tk.op = "flush"
    THEN [tk EXCEPT !.pc = "loop", !.err = error, !.client = NoClient]
    ELSE [tk EXCEPT !.pc = "done", !.err = error, !.client = NoClient]

\* deleteSession ends, with the error it throws ("": none).  Inside
\* flushSessions a thrown error ends the flush (lines 238-241).
ReturnDelete(tk, error) ==
    IF tk.op = "flush" /\ error = ""
    THEN [tk EXCEPT !.pc = "loop", !.client = NoClient]
    ELSE [tk EXCEPT !.pc = "done", !.err = error, !.client = NoClient]

\* As Teardown, with destroy for a connected session too.
TeardownDestroys(validation) ==
    IF validation.success \/ validation.message = "session_not_connected"
    THEN "destroy"
    ELSE "none"

\* Which teardown a validation result selects (lines 204, 208).
Teardown(validation) ==
    IF validation.success THEN "logout"
    ELSE IF validation.message = "session_not_connected" THEN "destroy"
    ELSE "none"

\* As BeginDelete, with the caller not awaiting the call: the teardown is
\* invoked and the caller goes on.
BeginDeleteDetached(tk, sessionId, validation) ==
    LET how == Teardown(validation)
    IN  IF how = "none" \/ NotLive(sessions, sessionId)
        THEN ReturnDelete(tk, "")
        ELSE ReturnDelete([tk EXCEPT !.acted = @ \cup {<<sessionId, how>>}], "")

\* Lines 203-211, up to the first await: sessions.get(sessionId) is
\* undefined for a missing entry, and calling a method of it throws.
BeginDelete(tk, sessionId, validation) ==
    LET d == [tk EXCEPT !.id = sessionId, !.v = validation, !.client = NoClient,
                        !.rt = <<>>, !.rs = <<>>, !.guard = FALSE]
        how == Teardown(validation)
    IN  IF how = "none" THEN ReturnDelete(d, "")
        ELSE IF NotLive(sessions, sessionId) THEN ReturnDelete(d, "TypeError")
        ELSE [d EXCEPT !.client = sessions[sessionId], !.pc = how,
                       !.acted = @ \cup {<<sessionId, how>>}]

DeleteSession(t, sessionId, validation) ==
    /\ Running
    /\ Free(t)
    /\ task' = [task EXCEPT ![t] =
                  BeginDelete([IdleTask EXCEPT !.op = "delete"], sessionId, validation)]
    /\ UNCHANGED Others

\* client.logout() resolves: deleteSession returns (line 207).
LogoutResolves(t) ==
    /\ Running
    /\ task[t].pc = "logout"
    /\ task' = [task EXCEPT ![t] = ReturnDelete(task[t], "")]
    /\ UNCHANGED Others

LogoutRejects(t) ==
    /\ Running
    /\ task[t].pc = "logout"
    /\ task' = [task EXCEPT ![t] = ReturnDelete(task[t], "logout failed")]
    /\ UNCHANGED Others

\* client.destroy() resolves: deleteSessionFolder is called (lines 211-212)
\* and issues its first realpath.
DestroyResolves(t) ==
    /\ Running
    /\ task[t].pc = "destroy"
    /\ clients' = [clients EXCEPT ![task[t].client].destroyed = TRUE]
    /\ task' = [task EXCEPT ![t].pc = "realpathTarget"]
    /\ UNCHANGED <<sessionFolderPath, dirs, links, sessions, restore, created, uncaught>>

\* client.destroy() rejects, before or after the browser was closed.
DestroyRejects(t, closed) ==
    /\ Running
    /\ task[t].pc = "destroy"
    /\ clients' = [clients EXCEPT ![task[t].client].destroyed = @ \/ closed]
    /\ task' = [task EXCEPT ![t] = ReturnDelete(task[t], "destroy failed")]
    /\ UNCHANGED <<sessionFolderPath, dirs, links, sessions, restore, created, uncaught>>

\* The check of line 191.
PathGuard(resolvedTargetDirPath, resolvedSessionPath) ==
    StartsWith(resolvedTargetDirPath, resolvedSessionPath)

\* fs.promises.realpath(targetDirPath) (line 188); a missing path rejects.
RealpathTarget(t) ==
    /\ Running
    /\ task[t].pc = "realpathTarget"
    /\ LET r == Realpath(dirs, links, TargetDirPath(sessionFolderPath, task[t].id))
       IN  task' = [task EXCEPT ![t] =
                      IF r.ok THEN [task[t] EXCEPT !.rt = r.path, !.pc = "realpathRoot"]
                      ELSE ReturnDelete(task[t], "ENOENT")]
    /\ UNCHANGED Others

\* As Checked, with the test of lines 191-193 left out.
Unchecked(tk, r) ==
    IF ~r.ok THEN ReturnDelete(tk, "ENOENT")
    ELSE [tk EXCEPT !.rs = r.path, !.pc = "rm", !.acted = @ \cup {<<tk.id, "rm">>}]

\* The state after lines 189-193: fs.promises.realpath(sessionFolderPath),
\* then the check; past it fs.promises.rm is issued (line 194).
Checked(tk, r) ==
    IF ~r.ok THEN ReturnDelete(tk, "ENOENT")
    ELSE IF ~PathGuard(tk.rt, r.path)
    THEN ReturnDelete([tk EXCEPT !.rs = r.path], "Invalid path")
    ELSE [tk EXCEPT !.rs = r.path, !.guard = TRUE, !.pc = "rm",
                    !.acted = @ \cup {<<tk.id, "rm">>}]

RealpathRoot(t) ==
    /\ Running
    /\ task[t].pc = "realpathRoot"
    /\ task' = [task EXCEPT ![t] =
                  Checked(task[t], Realpath(dirs, links, sessionFolderPath))]
    /\ UNCHANGED Others

\* After deleteSessionFolder returned: line 213 for deleteSession.
AfterFolder(tk) ==
    IF tk.op = "folder" THEN [tk EXCEPT !.pc = "done"] ELSE [tk EXCEPT !.pc = "unregister"]

\* fs.promises.rm(targetDirPath, {recursive, force}) is carried out on the
\* path as it resolves now.  force: a path that is gone is no error.  When
\* the path's last segment is a link, the link's tree may or may not go.
Rm(t, removes) ==
    /\ Running
    /\ task[t].pc = "rm"
    /\ LET p == TargetDirPath(sessionFolderPath, task[t].id)
           r == Realpath(dirs, links, p)
       IN  /\ ~removes => r.ok /\ EndsInLink(dirs, links, p)
           /\ dirs' = IF r.ok /\ removes THEN RemoveTree(dirs, r.path) ELSE dirs
           /\ links' = IF r.ok /\ removes THEN LinksLeft(links, r.path) ELSE links
    /\ task' = [task EXCEPT ![t] = AfterFolder(task[t])]
    /\ UNCHANGED <<sessionFolderPath, sessions, clients, restore, created, uncaught>>

\* fs.promises.rm rejects: the error is rethrown (lines 195-198, 215-218).
RmRejects(t) ==
    /\ Running
    /\ task[t].pc = "rm"
    /\ task' = [task EXCEPT ![t] = ReturnDelete(task[t], "rm failed")]
    /\ UNCHANGED Others

\* sessions.delete(sessionId) (line 213), then deleteSession returns.
Unregister(t) ==
    /\ Running
    /\ task[t].pc = "unregister"
    /\ sessions' = MapDelete(sessions, task[t].id)
    /\ task' = [task EXCEPT ![t] =
                  ReturnDelete([task[t] EXCEPT !.acted = @ \cup {<<task[t].id, "unregister">>}], "")]
    /\ UNCHANGED <<sessionFolderPath, dirs, links, clients, restore, created, uncaught>>

(***************************************************************************)
(* flushSessions (lines 222-242).                                          *)
(***************************************************************************)
FlushSessions(t, deleteOnlyInactive) ==
    /\ Running
    /\ Free(t)
    /\ task' = [task EXCEPT ![t] =
                  [IdleTask EXCEPT !.op = "flush", !.pc = "readdir",
                                   !.flag = deleteOnlyInactive]]
    /\ UNCHANGED Others

\* fs.promises.readdir(sessionFolderPath) (line 225); a missing root rejects.
FlushReaddir(t) ==
    /\ Running
    /\ task[t].pc = "readdir"
    /\ LET r == Realpath(dirs, links, sessionFolderPath)
       IN  task' = [task EXCEPT ![t] =
                      IF r.ok
                      THEN [task[t] EXCEPT !.files = Children(dirs, links, r.path),
                                           !.pc = "loop"]
                      ELSE [task[t] EXCEPT !.pc = "done", !.err = "ENOENT"]]
    /\ UNCHANGED Others

\* As Deletes, with deleteOnlyInactive ignored: everything is deleted.
DeletesAll(deleteOnlyInactive, validation) == TRUE

\* As Deletes, with deleteOnlyInactive ignored: only inactive sessions are.
DeletesInactive(deleteOnlyInactive, validation) == ~validation.success

\* The test of line 233.
Deletes(deleteOnlyInactive, validation) == ~deleteOnlyInactive \/ ~validation.success

\* One iteration of the for loop, up to its first await (lines 227-232).
FlushIterate(t, file) ==
    /\ Running
    /\ task[t].pc = "loop"
    /\ file \in task[t].files
    /\ LET tk == [task[t] EXCEPT !.files = @ \ {file}]
       IN  task' = [task EXCEPT ![t] =
                      IF Match(file) /\ MatchId(file) # <<>>
                      THEN BeginValidate(tk, MatchId(file))
                      ELSE tk]
    /\ UNCHANGED Others

\* validateSession returned: lines 233-235.
FlushDecide(t) ==
    /\ Running
    /\ task[t].pc = "decide"
    /\ task' = [task EXCEPT ![t] =
                  IF Deletes(task[t].flag, task[t].v)
                  THEN BeginDelete(task[t], task[t].id, task[t].v)
                  ELSE [task[t] EXCEPT !.pc = "loop"]]
    /\ UNCHANGED Others

\* The loop is over: flushSessions returns.
FlushDone(t) ==
    /\ Running
    /\ task[t].pc = "loop"
    /\ task[t].files = {}
    /\ task' = [task EXCEPT ![t].pc = "done"]
    /\ UNCHANGED Others

(***************************************************************************)
(* Specifications.  One asynchronous call is in flight at a time;          *)
(* setupSession, restoreSessions and the client library's steps are taken  *)
(* at any of its suspension points.                                        *)
(***************************************************************************)
CreateNext == \E i \in Ids, throws \in BOOLEAN : Create(i, throws)

RestoreNext ==
    \/ RestoreSessions
    \/ RestoreMkdir
    \/ RestoreMkdirThrows
    \/ \E bad \in SUBSET Ids : RestoreCallback(bad)
    \/ RestoreCallbackError

PupPageNext == \E h \in 1..MaxClients : PupPageAppears(h)

AuthStoreNext == \E h \in 1..MaxClients : AuthStoreCreated(h)

ValidateSteps(t) ==
    \/ WaitResolves(t)
    \/ WaitTimesOut(t)
    \/ EvaluateResolves(t)
    \/ EvaluateThrows(t)
    \/ DelayEnds(t)
    \/ \E s \in States : GetState(t, s)
    \/ GetStateThrows(t)

DeleteSteps(t) ==
    \/ LogoutResolves(t)
    \/ LogoutRejects(t)
    \/ DestroyResolves(t)
    \/ \E closed \in BOOLEAN : DestroyRejects(t, closed)
    \/ RealpathTarget(t)
    \/ RealpathRoot(t)
    \/ \E removes \in BOOLEAN : Rm(t, removes)
    \/ RmRejects(t)
    \/ Unregister(t)

FlushSteps(t) ==
    \/ FlushReaddir(t)
    \/ \E f \in task[t].files : FlushIterate(t, f)
    \/ FlushDecide(t)
    \/ FlushDone(t)

\* The registry as setupSession and restoreSessions fill it.
RegistryNext == CreateNext \/ RestoreNext \/ AuthStoreNext

RegistrySpec == InitOrFresh /\ [][RegistryNext]_vars

\* validateSession against the registry and the clients.
ValidateNext ==
    \/ CreateNext
    \/ PupPageNext
    \/ \E t \in Solo : (\E i \in Ids : ValidateSession(t, i)) \/ ValidateSteps(t)

ValidateSpec == Init /\ [][ValidateNext]_vars

\* deleteSession with any validation result a caller hands it.
DeleteNext ==
    \/ CreateNext
    \/ AuthStoreNext
    \/ \E t \in Solo :
          (\E i \in Ids, v \in Validations : DeleteSession(t, i, v)) \/ DeleteSteps(t)

DeleteSpec == Init /\ [][DeleteNext]_vars

\* flushSessions, which validates and deletes.
FlushNext ==
    \/ CreateNext
    \/ PupPageNext
    \/ AuthStoreNext
    \/ \E t \in Solo :
          \/ \E b \in BOOLEAN : FlushSessions(t, b)
          \/ FlushSteps(t)
          \/ ValidateSteps(t)
          \/ DeleteSteps(t)

FlushSpec == Init /\ [][FlushNext]_vars

\* Every operation of the module.
Next ==
    \/ RegistryNext
    \/ ValidateNext
    \/ DeleteNext
    \/ FlushNext

Spec == InitOrFresh /\ [][Next]_vars

(***************************************************************************)
(* deleteSessionFolder on its own: every sessions root, id and layout of   *)
(* the file system below, with and without links in the root.              *)
(***************************************************************************)
\* A sibling of MainRoot whose name starts with MainRoot's: /d/s-o.
OtherRoot == <<"/", "d", "/", "s", "-", "o">>

\* A directory outside both: /d/o.
Outside == <<"/", "d", "/", "o">>

GuardRoots == {MainRoot, OtherRoot}

Sibling(root) == IF root = MainRoot THEN OtherRoot ELSE MainRoot

GuardDirs ==
    Ancestors(MainRoot) \cup {OtherRoot, Outside}
        \cup { SessionDir(r, i) : r \in GuardRoots, i \in Ids }

\* Links in the root: to its sibling, to the root itself, outside, and to
\* another session's directory.
GuardLinks(root) ==
    LET l == SessionDir(root, <<"l">>)
        r == SessionDir(root, <<"r">>)
        m == SessionDir(root, <<"m">>)
        i == SessionDir(root, <<"i">>)
    IN  [n \in {l, r, m, i} |->
            IF n = l THEN Sibling(root)
            ELSE IF n = r THEN root
            ELSE IF n = m THEN Outside
            ELSE SessionDir(root, IdB)]

\* "a/../.." followed by "/" and a name
UpTwo(name) == IdA \o Sep \o DotDot \o Sep \o DotDot \o Sep \o name

GuardIds ==
    { IdA, <<"c">>, <<"l">>, <<"r">>, <<"m">>, <<"i">>,
      IdA \o Sep \o DotDot,
      IdA \o Sep \o DotDot \o Sep \o SessionPrefix \o IdB,
      UpTwo(<<"s">>), UpTwo(<<"s", "-", "o">>), UpTwo(<<"o">>) }

GuardInit ==
    /\ sessionFolderPath \in GuardRoots
    /\ dirs = GuardDirs
    /\ links \in {<<>>, GuardLinks(sessionFolderPath)}
    /\ Loaded

\* deleteSessionFolder(sessionId) is called: lines 186-188.
DeleteSessionFolder(t, sessionId) ==
    /\ Running
    /\ Free(t)
    /\ task' = [task EXCEPT ![t] =
                  [IdleTask EXCEPT !.op = "folder", !.pc = "realpathTarget",
                                   !.id = sessionId]]
    /\ UNCHANGED Others

GuardNext ==
    \E t \in Solo :
        \/ \E i \in GuardIds : DeleteSessionFolder(t, i)
        \/ RealpathTarget(t)
        \/ RealpathRoot(t)
        \/ \E removes \in BOOLEAN : Rm(t, removes)
        \/ RmRejects(t)

GuardSpec == GuardInit /\ [][GuardNext]_vars

(***************************************************************************)
(* The 'message' listener of a client (lines 135-146).  sent: the           *)
(* triggerWebhook calls of one run of the listener, in order.              *)
(***************************************************************************)
\* triggerWebhook(sessionId, event, data)
Webhook(sessionId, event, data) == [sessionId |-> sessionId, event |-> event, data |-> data]

\* As SmallEnough, with the threshold itself taken for small.
AtMost(size, maxAttachmentSize) == size # <<>> /\ size[1] <= maxAttachmentSize

\* message._data?.size < maxAttachmentSize (line 138): false for a missing
\* size, which compares as undefined.
SmallEnough(size, maxAttachmentSize) == size # <<>> /\ size[1] < maxAttachmentSize

\* new MessageMedia(message._data?.mimetype, null, message._data?.size):
\* the arguments of the constructor call of line 143.
Placeholder(message) ==
    [mimetype |-> message.mimetype, data |-> "null", third |-> message.size]

\* What message.downloadMedia() resolves with: the decoded payload.
Downloaded(message) ==
    [mimetype |-> message.mimetype, data |-> "payload", third |-> <<>>]

\* The listener runs up to its first await, or to its end (lines 136-145).
OnMessage(tk, sessionId, message, maxAttachmentSize) ==
    LET m == [tk EXCEPT !.op = "message", !.id = sessionId, !.msg = message,
                        !.max = maxAttachmentSize,
                        !.sent = <<Webhook(sessionId, "message", message)>>]
    IN  IF ~message.hasMedia THEN [m EXCEPT !.pc = "done"]
        ELSE IF SmallEnough(message.size, maxAttachmentSize)
        THEN [m EXCEPT !.pc = "download", !.did = {"download"}]
        ELSE [m EXCEPT !.pc = "done",
                       !.sent = Append(@, Webhook(sessionId, "media", Placeholder(message)))]

\* A live client emits 'message'.
MessageEvent(t, h, message, maxAttachmentSize) ==
    /\ Running
    /\ Free(t)
    /\ Live(h)
    /\ task' = [task EXCEPT ![t] =
                  OnMessage(IdleTask, clients[h].id, message, maxAttachmentSize)]
    /\ UNCHANGED Others

\* message.downloadMedia() resolves (lines 139-140).
DownloadResolves(t) ==
    /\ Running
    /\ task[t].pc = "download"
    /\ task' = [task EXCEPT ![t].pc = "done",
                            ![t].sent = Append(@, Webhook(task[t].id, "media",
                                                          Downloaded(task[t].msg)))]
    /\ UNCHANGED Others

\* It rejects: the listener's promise is rejected and nobody handles it,
\* which ends the process or not, by the runtime's unhandled-rejections mode.
DownloadRejects(t, fatal) ==
    /\ Running
    /\ task[t].pc = "download"
    /\ task' = [task EXCEPT ![t].pc = "done", ![t].err = "download failed"]
    /\ uncaught' = fatal
    /\ UNCHANGED <<sessionFolderPath, dirs, links, sessions, clients, restore, created>>

MessageSteps(t) ==
    \/ \E h \in 1..MaxClients, m \in Messages, max \in Thresholds :
            MessageEvent(t, h, m, max)
    \/ DownloadResolves(t)
    \/ \E fatal \in BOOLEAN : DownloadRejects(t, fatal)

\* The listeners of the clients that setupSession constructs.
MediaNext == CreateNext \/ \E t \in Solo : MessageSteps(t)

MediaSpec == Init /\ [][MediaNext]_vars

(***************************************************************************)
(* Forced deletes of one id in flight at the same time, with setupSession  *)
(* for that id and the creation of its store at their suspension points.   *)
(***************************************************************************)
RaceNext ==
    \/ Create(IdA, FALSE)
    \/ AuthStoreNext
    \/ \E t \in Tasks :
          \/ DeleteSession(t, IdA, Classify("null"))
          \/ DestroyResolves(t)
          \/ \E closed \in BOOLEAN : DestroyRejects(t, closed)
          \/ RealpathTarget(t)
          \/ RealpathRoot(t)
          \/ Rm(t, TRUE)
          \/ Unregister(t)

RaceSpec == Init /\ [][RaceNext]_vars

(***************************************************************************)
(* Properties.                                                             *)
(***************************************************************************)
\* Task t takes a step.
StepOf(t) == task'[t] # task[t]

\* In every state, setupSession on a registered id would change neither the
\* Map nor the clients and would return success:false with the entry's client.
DuplicateCreateIsNoOp ==
    \A i \in DOMAIN sessions, throws \in BOOLEAN :
        LET r == SetupSession(sessions, clients, i, throws)
        IN  /\ r.sessions = sessions
            /\ r.clients = clients
            /\ r.ret.success = FALSE
            /\ r.ret.client = sessions[i]

\* Every entry holds the one Client constructed for its id, and no Client
\* was constructed beside the entries.
OneClientPerEntry ==
    /\ \A i \in DOMAIN sessions :
          sessions[i] \in 1..Len(clients) /\ clients[sessions[i]].id = i
    /\ Len(clients) = Cardinality(DOMAIN sessions)
    /\ created.message = "Session already exists" =>
          ~created.success /\ created.client = sessions[created.id]
    /\ created.success => sessions[created.id] = created.client

\* A setupSession call that found the id registered left Map and clients alone.
DuplicateCreateStep ==
    (restore = "none" /\ restore' = "none" /\ created' # created
        /\ created'.message = "Session already exists")
    => /\ sessions' = sessions
       /\ clients' = clients
       /\ created'.client = sessions[created'.id]

\* An entry, once set, stays and keeps its client.
EntryKept == \A i \in DOMAIN sessions : i \in DOMAIN sessions' /\ sessions'[i] = sessions[i]

\* C1: create is idempotent: on a registered id it constructs no client,
\* leaves the registry unchanged and returns success:false with the
\* registered client; after any sequence of create and restoreAll calls the
\* registry holds one entry per id, the client of the first successful create.
C1_CreateIdempotent ==
    /\ [](DuplicateCreateIsNoOp /\ OneClientPerEntry)
    /\ [][DuplicateCreateStep /\ EntryKept]_vars

\* A duplicate call was made and returned the registered client, while
\* another id had been registered too.
C1_Witness ==
    /\ created.message = "Session already exists"
    /\ created.id \in DOMAIN sessions
    /\ created.client = sessions[created.id]
    /\ Cardinality(DOMAIN sessions) = 2

\* A forced teardown: success:false with message "session_not_connected".
Forced(validation) ==
    ~validation.success /\ validation.message = "session_not_connected"

\* A forced deleteSession that returns without error leaves no entry and no
\* directory for its id.
ForcedDeleteCompletes ==
    \A t \in Tasks :
        (StepOf(t) /\ task'[t].op = "delete" /\ task'[t].pc = "done"
            /\ task'[t].err = "" /\ Forced(task'[t].v))
        => /\ task[t].pc = "unregister"
           /\ task'[t].id \notin DOMAIN sessions'
           /\ SessionDir(sessionFolderPath, task'[t].id) \notin dirs'
           /\ ~Realpath(dirs', links', TargetDirPath(sessionFolderPath, task'[t].id)).ok

\* Directories and entries go only in the steps after a passed check.
RemovalAfterGuard ==
    /\ dirs \ dirs' # {} =>
          \E t \in Tasks : /\ StepOf(t)
                           /\ task[t].pc = "rm"
                           /\ task[t].guard
                           /\ PathGuard(task[t].rt, task[t].rs)
    /\ DOMAIN sessions \ DOMAIN sessions' # {} =>
          \E t \in Tasks : /\ StepOf(t)
                           /\ task[t].pc = "unregister"
                           /\ task[t].guard
                           /\ DOMAIN sessions \ DOMAIN sessions' = {task[t].id}

\* The removal steps are reached only with the check passed.
GuardBeforeRemoval ==
    \A t \in Tasks :
        task[t].pc \in {"rm", "unregister"} =>
            task[t].guard /\ PathGuard(task[t].rt, task[t].rs)

GracefulOnlyLogout ==
    \A t \in Tasks :
        (task[t].op = "delete" /\ task[t].v.success) =>
            /\ task[t].pc \in {"logout", "done"}
            /\ task[t].acted \subseteq {<<task[t].id, "logout">>}
            /\ task[t].pc = "logout" => task[t].client = sessions[task[t].id]

\* Its steps leave the Map, the clients and the file system as they are.
GracefulFrame ==
    \A t \in Tasks :
        (StepOf(t) /\ task'[t].op = "delete" /\ task'[t].v.success) =>
            UNCHANGED <<sessions, clients, dirs, links>>

\* C3: delete with success:true only invokes logout on the registered
\* client: no destroy, no directory removal, no registry removal, whether
\* logout succeeds or fails.
C3_GracefulDeleteOnlyLogsOut == []GracefulOnlyLogout /\ [][GracefulFrame]_vars

\* A graceful delete whose logout failed has returned; entry and directory
\* are still there.
C3_Witness ==
    \E t \in Tasks :
        /\ task[t].op = "delete"
        /\ task[t].v.success
        /\ task[t].pc = "done"
        /\ task[t].err = "logout failed"
        /\ task[t].acted = {<<task[t].id, "logout">>}
        /\ task[t].id \in DOMAIN sessions
        /\ ~clients[sessions[task[t].id]].destroyed
        /\ SessionDir(sessionFolderPath, task[t].id) \in dirs

\* What a flush has invoked on session i.
ActedOn(tk, i) == { k \in {"logout", "destroy", "rm", "unregister"} : <<i, k>> \in tk.acted }

\* In a flush of inactive sessions only, nothing is invoked on a session
\* validated success:true.
ConnectedSpared ==
    \A t \in Tasks :
        (task[t].op = "flush" /\ task[t].flag) =>
            \A e \in task[t].seen : e[2] => ActedOn(task[t], e[1]) = {}

\* The step after such a validation goes on with the loop and changes nothing.
ConnectedSkipped ==
    \A t \in Tasks :
        (StepOf(t) /\ task[t].op = "flush" /\ task[t].flag
            /\ task[t].pc = "decide" /\ task[t].v.success)
        => /\ task'[t].pc = "loop"
           /\ task'[t].acted = task[t].acted
           /\ UNCHANGED <<sessions, clients, dirs, links>>

\* C4: flush(deleteOnlyInactive=true) never deletes a session whose
\* validation returned success:true: no logout, no destroy, no directory
\* removal and no registry removal for it.
C4_FlushInactiveSparesConnected == []ConnectedSpared /\ [][ConnectedSkipped]_vars

\* Such a flush has returned: it skipped a connected session and removed
\* another one.
C4_Witness ==
    \E t \in Tasks :
        /\ task[t].op = "flush"
        /\ task[t].flag
        /\ task[t].pc = "done"
        /\ task[t].err = ""
        /\ \E e \in task[t].seen :
              e[2] /\ e[1] \in DOMAIN sessions /\ ~clients[sessions[e[1]]].destroyed
        /\ \E e \in task[t].seen : "unregister" \in ActedOn(task[t], e[1])

\* A flush of all sessions has returned without error.
FlushedAll(t) ==
    task[t].op = "flush" /\ ~task[t].flag /\ task[t].pc = "done" /\ task[t].err = ""

\* C5 as claimed: flush(deleteOnlyInactive=false), when it completes without
\* error, has removed the registry entry and the directory of every scanned
\* session whose validation message was not "session_not_found".
C5_FlushAllRemovesEveryFound ==
    \A t \in Tasks :
        FlushedAll(t) =>
            \A e \in task[t].seen :
                e[3] # "session_not_found" =>
                    {"rm", "unregister"} \subseteq ActedOn(task[t], e[1])

\* What such a flush has invoked on each scanned session, by its validation.
TornDownByValidation ==
    \A t \in Tasks :
        FlushedAll(t) =>
            /\ task[t].files = {}
            /\ \A e \in task[t].seen :
                  ActedOn(task[t], e[1]) =
                      IF e[2] THEN {"logout"}
                      ELSE IF e[3] = "session_not_connected"
                           THEN {"destroy", "rm", "unregister"}
                           ELSE {}

\* The removal of an entry by a flush leaves no entry and no directory.
FlushRemoves ==
    \A t \in Tasks :
        (StepOf(t) /\ task[t].op = "flush" /\ task[t].pc = "unregister")
        => /\ task[t].id \notin DOMAIN sessions'
           /\ SessionDir(sessionFolderPath, task[t].id) \notin dirs'

\* C5, amended: flush(deleteOnlyInactive=false), when it completes without
\* error, has destroyed the client and removed the entry and the directory
\* of every scanned session validated "session_not_connected", has only
\* logged out every session validated connected, and has left alone the
\* sessions whose validation was not-found or an error text.
C5_FlushAllTearsDownByValidation == []TornDownByValidation /\ [][FlushRemoves]_vars

\* Such a flush has returned: one session was only logged out and keeps
\* its entry, another was removed.
C5_Witness ==
    \E t \in Tasks :
        /\ FlushedAll(t)
        /\ \E e \in task[t].seen :
              /\ e[2]
              /\ ActedOn(task[t], e[1]) = {"logout"}
              /\ e[1] \in DOMAIN sessions
        /\ \E e \in task[t].seen :
              /\ e[3] = "session_not_connected"
              /\ e[1] \notin DOMAIN sessions
              /\ SessionDir(sessionFolderPath, e[1]) \notin dirs

\* The check passed only for a directory strictly below the root.
StrictlyBelow(target, root) == StartsWith(target, root \o Sep)

\* C6: PathGuard approves a path only when the canonical target is a strict
\* subdirectory of the canonical sessions root: not the root itself, not a
\* sibling whose name starts with the root's name.
C6_GuardApprovesOnlySubdirectories ==
    \A t \in Tasks : task[t].guard => StrictlyBelow(task[t].rt, task[t].rs)

\* The id has a parent-directory segment.
HasDotDot(sessionId) == \E k \in 1..Len(Split(sessionId)) : Split(sessionId)[k] = DotDot

\* C7: PathGuard rejects every id with a parent-directory segment: the check
\* fails and no removal is issued, also when the path resolves into the root.
C7_GuardRejectsDotDot ==
    \A t \in Tasks :
        (task[t].op = "folder" /\ HasDotDot(task[t].id)) =>
            ~task[t].guard /\ task[t].pc # "rm"

\* C8: a validate whose wait for pupPage timed out returns success:false,
\* state:null and the timeout's message, and does not enter the retry loop.
C8_TimeoutEndsValidation ==
    \A t \in Tasks :
        task[t].timedOut =>
            /\ task[t].pc = "done"
            /\ task[t].v = [success |-> FALSE, state |-> "null", message |-> TimeoutMessage]
            /\ "evaluate" \notin task[t].did

\* A validateSession call on an id without an entry returns at once.
NotFoundAtOnce ==
    \A t \in Tasks :
        (StepOf(t) /\ Free(t) /\ task'[t].op = "validate"
            /\ task'[t].id \notin DOMAIN sessions)
        => /\ task'[t].pc = "done"
           /\ task'[t].v = [success |-> FALSE, state |-> "null",
                            message |-> "session_not_found"]
           /\ task'[t].did = {}
           /\ UNCHANGED <<sessions, clients, dirs, links>>

\* A not-found result comes with no wait, evaluation, delay or getState.
NotFoundDidNothing ==
    \A t \in Tasks :
        task[t].v.message = "session_not_found" =>
            /\ task[t].did = {}
            /\ ~task[t].timedOut
            /\ task[t].reported = ""
            /\ task[t].v = [success |-> FALSE, state |-> "null",
                            message |-> "session_not_found"]

\* C9: for an id with no live client in the registry validate returns
\* success:false, state:null, "session_not_found" immediately: no wait, no
\* evaluation attempt, no delay, no getState call.
C9_NotFoundImmediately == []NotFoundDidNothing /\ [][NotFoundAtOnce]_vars

\* validate returned not-found for one id while the other is registered.
C9_Witness ==
    \E t \in Tasks :
        /\ task[t].op = "validate"
        /\ task[t].pc = "done"
        /\ task[t].v.message = "session_not_found"
        /\ task[t].id \notin DOMAIN sessions
        /\ DOMAIN sessions # {}

\* C10: once validate has the reported state s, it returns success:true,
\* state s, "session_connected" exactly when s is "CONNECTED", and
\* success:false, state s, "session_not_connected" for every other s;
\* success:true comes with no other state or message.
C10_ResultFollowsState ==
    \A t \in Tasks :
        /\ (task[t].pc \in {"done", "decide"} /\ task[t].reported # "") =>
              task[t].v =
                  IF task[t].reported = "CONNECTED"
                  THEN [success |-> TRUE, state |-> "CONNECTED",
                        message |-> "session_connected"]
                  ELSE [success |-> FALSE, state |-> task[t].reported,
                        message |-> "session_not_connected"]
        /\ task[t].v.success =>
              /\ task[t].reported = "CONNECTED"
              /\ task[t].v.state = "CONNECTED"
              /\ task[t].v.message = "session_connected"

\* validate returned for a client that reported a state other than the
\* sentinel.
C10_Witness ==
    \E t \in Tasks :
        /\ task[t].op = "validate"
        /\ task[t].pc = "done"
        /\ task[t].reported = "OPENING"
        /\ task[t].v = [success |-> FALSE, state |-> "OPENING",
                        message |-> "session_not_connected"]

\* The client failed during this validation: the wait for pupPage was
\* rejected, or getState was.
ClientFailed(tk) == tk.timedOut \/ ("getState" \in tk.did /\ tk.reported = "")

\* C11: validate never lets an exception escape: after a failure of the
\* client during the validation (the wait rejected, getState rejected) it
\* completes by returning success:false and state:null, and throws nothing.
C11_FailuresReturnFailure ==
    \A t \in Tasks :
        (task[t].op = "validate" /\ task[t].pc = "done" /\ ClientFailed(task[t]))
        => /\ ~task[t].v.success
           /\ task[t].v.state = "null"
           /\ task[t].err = ""

\* The ids of the session directories in the sessions root.
StoredIds == { i \in Ids : SessionDir(sessionFolderPath, i) \in dirs }

\* The listing callback of restoreSessions runs to its end on an empty Map.
RestoreFinishes ==
    /\ restore = "readdir"
    /\ restore' = "none"
    /\ ~uncaught'
    /\ sessions = <<>>

\* C12 as claimed: starting from an empty registry, when restoreAll has
\* finished the registry ids are exactly the ids of the root's children
\* named session-<id> with a non-empty id.
C12_RestoreCreatesEveryStoredId ==
    [][RestoreFinishes => DOMAIN sessions' = StoredIds]_vars

\* The entries after the scan: the stored ids but those whose client could
\* not be constructed, each with a client of its own constructed by the scan.
RestoredButThrown ==
    RestoreFinishes =>
        /\ created'.by = "restoreSessions"
        /\ created'.thrown \subseteq StoredIds
        /\ DOMAIN sessions' = StoredIds \ created'.thrown
        /\ \A i \in DOMAIN sessions' :
              /\ sessions'[i] \in (Len(clients) + 1)..Len(clients')
              /\ clients'[sessions'[i]].id = i
        /\ Len(clients') = Len(clients) + Cardinality(DOMAIN sessions')

\* C12, amended: starting from an empty registry, when restoreAll has
\* finished the registry ids are the ids of the root's children named
\* session-<id> with a non-empty id, except those whose client construction
\* threw; children not matching the pattern create no entry, and no other
\* entry is created.
C12_RestoreCreatesStoredIdsButThrown == [][RestoredButThrown]_vars

\* A scan has finished in a root holding "session-" and two session
\* directories: one got its entry, the other's construction threw.
C12_Witness ==
    /\ created.by = "restoreSessions"
    /\ restore = "none"
    /\ EmptyIdDir(sessionFolderPath) \in dirs
    /\ StoredIds = Ids
    /\ Cardinality(created.thrown) = 1
    /\ DOMAIN sessions = Ids \ created.thrown

\* C13: restoreAll is best-effort: an error while creating or listing the
\* sessions root is logged and swallowed, so that no exception leaves
\* restoreSessions or its listing callback.
C13_RestoreSwallowsErrors == ~uncaught

\* The awaits of deleteSession and deleteSessionFolder.
DeleteAwaits == {"logout", "destroy", "realpathTarget", "realpathRoot", "rm"}

\* A deleteSession call of a flush throws: the flush ends with that error,
\* the names not yet processed stay unprocessed.
FailureEndsFlush ==
    \A t \in Tasks :
        (StepOf(t) /\ task[t].op = "flush" /\ task[t].pc \in DeleteAwaits
            /\ task'[t].err # "")
        => /\ task'[t].pc = "done"
           /\ task'[t].id = task[t].id
           /\ task'[t].files = task[t].files
           /\ task'[t].seen = task[t].seen
           /\ task'[t].acted = task[t].acted
           /\ sessions' = sessions

\* A flush that has ended takes no further step: the task's next step is a
\* new call.
EndedFlushStays ==
    \A t \in Tasks :
        (StepOf(t) /\ task[t].op = "flush" /\ task[t].pc = "done")
        => /\ task'[t].pc = "readdir"
           /\ task'[t].seen = {}
           /\ task'[t].acted = {}
           /\ task'[t].err = ""

\* A flush rejected after its listing failed at the session validated last,
\* with the error of the step that failed, before the entry was removed.
RejectedAtFailure ==
    \A t \in Tasks :
        (task[t].op = "flush" /\ task[t].pc = "done" /\ task[t].err # ""
            /\ task[t].seen # {})
        => /\ <<task[t].id, task[t].v.success, task[t].v.message>> \in task[t].seen
           /\ "unregister" \notin ActedOn(task[t], task[t].id)
           /\ task[t].err = "logout failed" <=> "logout" \in ActedOn(task[t], task[t].id)
           /\ task[t].err = "rm failed" => "rm" \in ActedOn(task[t], task[t].id)
           /\ task[t].err \in {"Invalid path", "rm failed"} =>
                  "destroy" \in ActedOn(task[t], task[t].id)

\* C14: flush propagates the first delete failure and stops the batch: when
\* deleteSession throws for a scanned session (logout, destroy, path check
\* or removal failing) the flush rejects with that error, and no session
\* after it is validated or deleted by that flush.
C14_FlushStopsAtFirstFailure ==
    []RejectedAtFailure /\ [][FailureEndsFlush /\ EndedFlushStays]_vars

\* A flush was rejected by a failed removal while the directory of a
\* registered session was still to be processed.
C14_Witness ==
    \E t \in Tasks :
        /\ task[t].op = "flush"
        /\ task[t].pc = "done"
        /\ task[t].err = "rm failed"
        /\ \E f \in task[t].files :
              Match(f) /\ MatchId(f) \in DOMAIN sessions /\ MatchId(f) # task[t].id

\* The runs of the 'message' listener.
Listening(t) == task[t].op = "message"

\* The listener forwards the message event before anything else, downloads
\* only a media whose declared size is below the threshold, and ends with
\* one media event: the payload after a download, the placeholder without.
MediaByDeclaredSize ==
    \A t \in Tasks :
        Listening(t) =>
            LET tk == task[t]
                small == tk.msg.size # <<>> /\ tk.msg.size[1] < tk.max
            IN  /\ Len(tk.sent) >= 1
                /\ tk.sent[1] = [sessionId |-> tk.id, event |-> "message", data |-> tk.msg]
                /\ "download" \in tk.did <=> (tk.msg.hasMedia /\ small)
                /\ tk.pc = "download" => Len(tk.sent) = 1
                /\ (tk.pc = "done" /\ ~tk.msg.hasMedia) => Len(tk.sent) = 1
                /\ (tk.pc = "done" /\ tk.msg.hasMedia /\ small /\ tk.err = "") =>
                      /\ Len(tk.sent) = 2
                      /\ tk.sent[2].event = "media"
                      /\ tk.sent[2].data.data = "payload"
                /\ (tk.pc = "done" /\ tk.msg.hasMedia /\ ~small) =>
                      /\ Len(tk.sent) = 2
                      /\ tk.sent[2].event = "media"
                      /\ tk.sent[2].data.mimetype = tk.msg.mimetype
                      /\ tk.sent[2].data.third = tk.msg.size
                      /\ tk.sent[2].data.data = "null"

Whole == {{}, {"logout"}, {"destroy", "rm", "unregister"}}

\* While a flush runs, the teardown of every session but the one at hand is
\* over: nothing of it is pending.
EarlierSessionsSettled ==
    \A t \in Tasks :
        (task[t].op = "flush" /\ task[t].pc # "done") =>
            \A e \in task[t].seen :
                (e[1] # task[t].id \/ task[t].pc = "loop") =>
                    ActedOn(task[t], e[1]) \in Whole

\* A flush turns to another session only between two iterations, and begins
\* a teardown only with the validation of the session at hand.
NextAfterPrevious ==
    \A t \in Tasks :
        (StepOf(t) /\ task[t].op = "flush" /\ task[t].pc # "done") =>
            /\ task'[t].op = "flush"
            /\ task'[t].id # task[t].id => task[t].pc = "loop"
            /\ task'[t].seen # task[t].seen => task[t].pc \notin DeleteAwaits
            /\ task'[t].pc \in {"logout", "destroy"} =>
                  /\ task[t].pc = "decide"
                  /\ <<task[t].id, task[t].v.success, task[t].v.message>> \in task[t].seen

\* C16: flush processes sessions strictly one at a time: the validation of
\* the next scanned session does not start until the validation and the
\* delete of the previous one have completed, so a logout and a forced
\* destruction of one flush never run interleaved.
C16_FlushOneAtATime == []EarlierSessionsSettled /\ [][NextAfterPrevious]_vars

\* A flush waits in the validation of its second session after the forced
\* teardown of its first was completed.
C16_Witness ==
    \E t \in Tasks :
        /\ task[t].op = "flush"
        /\ task[t].pc = "wait"
        /\ \E e \in task[t].seen :
              /\ e[1] # task[t].id
              /\ ActedOn(task[t], e[1]) = {"destroy", "rm", "unregister"}

\* C17: a stale directory is handled as not-found rather than fatal: when
\* the session-<id> directory does not exist by the time delete resolves its
\* path, the operation completes without throwing.
C17_MissingDirectoryIsNotFatal ==
    [][\A t \in Tasks :
          (StepOf(t) /\ task[t].pc = "realpathTarget"
              /\ SessionDir(sessionFolderPath, task[t].id) \notin dirs)
          => task'[t].err = ""]_vars

\* C18: delete re-checks existence at its top: called with an earlier
\* validation (success:true or "session_not_connected") for an id whose
\* entry was removed in the meantime, it performs no logout, no destroy and
\* no removal, and does not fail.
C18_DeleteOfRemovedEntryIsNoOp ==
    [][\A t \in Tasks :
          (/\ StepOf(t) /\ Free(t)
           /\ task'[t].op = "delete"
           /\ Teardown(task'[t].v) # "none"
           /\ task'[t].id \notin DOMAIN sessions
           /\ \E h \in 1..Len(clients) :
                 clients[h].id = task'[t].id /\ clients[h].destroyed)
          => /\ task'[t].pc = "done"
             /\ task'[t].err = ""
             /\ task'[t].acted = {}]_vars

\* C19: registry entries always refer to usable handles: with no delete in
\* progress no entry refers to a client on which destroy was executed, also
\* after a forced delete failed past its destroy.
C19_NoDestroyedClientRegistered ==
    (\A t \in Tasks : Free(t)) =>
        \A i \in DOMAIN sessions : ~clients[sessions[i]].destroyed

\* Every constructed client that was not destroyed is the one registered
\* under its id.
LiveClientsRegistered ==
    \A h \in 1..Len(clients) :
        ~clients[h].destroyed =>
            clients[h].id \in DOMAIN sessions /\ sessions[clients[h].id] = h

\* No two calls have destroy pending on the same client.
DestroyedOnce ==
    \A t, u \in Tasks :
        (t # u /\ task[t].pc = "destroy" /\ task[u].pc = "destroy")
        => task[t].client # task[u].client

\* An entry is removed only by the call that destroyed the client in it.
RemovedByDestroyer ==
    \A t \in Tasks :
        task[t].pc = "unregister" =>
            (task[t].id \in DOMAIN sessions => sessions[task[t].id] = task[t].client)

\* C20: under any interleaving of delete calls for one id with create calls
\* at their suspension points, destroy is invoked at most once per client,
\* an entry is only removed by the delete that destroyed the client stored
\* in it, and no constructed, undestroyed client exists outside the registry.
C20_DeletesOfOneIdDoNotClash ==
    DestroyedOnce /\ RemovedByDestroyer /\ LiveClientsRegistered
====
